---------------------------- MODULE Spec2Model ----------------------------
(***************************************************************************)
(* State machine of the Snake game of src/src/components/SnakeGame.tsx.    *)
(*                                                                         *)
(* The state is the component's React state (snake, direction, food,       *)
(* gameOver, gameStarted, isPaused, score) plus the interval held in       *)
(* gameLoopRef (timerArmed, and elapsed: the time since that interval was  *)
(* set or last fired).  steps counts the snake's moves of the run.         *)
(* lastApplied is the direction the last tick of the run moved the head    *)
(* by, sinceTick the time since the last tick or since the game began to   *)
(* run; quiet and quietTicks belong to the runs in which the player stops  *)
(* pressing keys and buttons.  Every handler runs to completion; the re-render and the   *)
(* effect of lines 159-173 that follow it are part of the handler's        *)
(* action.  The handlers are modelled as operations that may be invoked    *)
(* in every phase (the view of lines 233-259 only renders START while      *)
(* !gameStarted && !gameOver, PAUSE/RESUME while gameStarted && !gameOver  *)
(* and RESTART while gameOver).                                            *)
(***************************************************************************)
EXTENDS Integers, Sequences, FiniteSets

VARIABLES snake, direction, food, gameOver, gameStarted, isPaused, score,
          timerArmed, steps, lastApplied, elapsed, sinceTick, quiet,
          quietTicks

state == <<snake, direction, food, gameOver, gameStarted, isPaused, score>>
vars  == <<snake, direction, food, gameOver, gameStarted, isPaused, score,
           timerArmed, steps, lastApplied, elapsed, sinceTick, quiet,
           quietTicks>>

(***************************************************************************)
(* Program constants.                                                      *)
(***************************************************************************)
GRID_SIZE == 15

INITIAL_SNAKE == << [x |-> 7, y |-> 7] >>

INITIAL_DIRECTION == [x |-> 1, y |-> 0]

INITIAL_FOOD == [x |-> 10, y |-> 10]

REWARD == 10

GAME_SPEED == 150

NoDirection == [x |-> 0, y |-> 0]

(***************************************************************************)
(* Bound of the model.  MaxSteps caps the number of snake moves of one     *)
(* run (since construction or the last restart).                           *)
(***************************************************************************)
MaxSteps == 9

Keys == {"ArrowUp", "ArrowDown", "ArrowLeft", "ArrowRight", "Enter"}

Cells == [x : 0 .. GRID_SIZE - 1, y : 0 .. GRID_SIZE - 1]

(***************************************************************************)
(* generateFood: each draw (floor(random * GRID_SIZE), floor(random *      *)
(* GRID_SIZE)) is a cell of the grid; the do-while loop returns the first  *)
(* draw that is on no segment of currentSnake.  The set of its results.    *)
(***************************************************************************)
generateFood_IgnoresHead(currentSnake) ==
    {newFood \in Cells :
        ~ \E i \in 2 .. Len(currentSnake) :
            currentSnake[i].x = newFood.x /\ currentSnake[i].y = newFood.y}

generateFood(currentSnake) ==
    {newFood \in Cells :
        ~ \E i \in 1 .. Len(currentSnake) :
            currentSnake[i].x = newFood.x /\ currentSnake[i].y = newFood.y}

(***************************************************************************)
(* checkCollision: wall collision, then self collision against body.       *)
(***************************************************************************)
checkCollision_NoWall(head, body) ==
    \E i \in 1 .. Len(body) : body[i].x = head.x /\ body[i].y = head.y

checkCollision_SkipTail(head, body) ==
    IF head.x < 0 \/ head.x >= GRID_SIZE \/ head.y < 0 \/ head.y >= GRID_SIZE
    THEN TRUE
    ELSE \E i \in 1 .. Len(body) - 1 : body[i].x = head.x /\ body[i].y = head.y

checkCollision_NoUpperBound(head, body) ==
    IF head.x < 0 \/ head.y < 0
    THEN TRUE
    ELSE \E i \in 1 .. Len(body) : body[i].x = head.x /\ body[i].y = head.y

checkCollision(head, body) ==
    IF head.x < 0 \/ head.x >= GRID_SIZE \/ head.y < 0 \/ head.y >= GRID_SIZE
    THEN TRUE
    ELSE \E i \in 1 .. Len(body) : body[i].x = head.x /\ body[i].y = head.y

(***************************************************************************)
(* The phase of the game, from the three flags.                            *)
(***************************************************************************)
Running == gameStarted /\ ~isPaused /\ ~gameOver

Phase ==
    IF gameOver THEN "GameOver"
    ELSE IF ~gameStarted THEN "NotStarted"
    ELSE IF isPaused THEN "Paused"
    ELSE "Running"

(***************************************************************************)
(* The effect that sets up the game loop.  It runs again when one of its   *)
(* dependencies changed: gameLoop (a new callback when direction, food or  *)
(* a flag changed) or a flag.  Its cleanup clears the interval, its body   *)
(* sets a new one when the game is running.                                *)
(***************************************************************************)
GameLoopDeps == <<direction, food, gameStarted, isPaused, gameOver>>

useEffectGameLoop_NeverCleared ==
    timerArmed' = (timerArmed \/ Running')

useEffectGameLoop ==
    timerArmed' = IF GameLoopDeps' # GameLoopDeps THEN Running' ELSE timerArmed

(***************************************************************************)
(* The head after one move in the current direction.                       *)
(***************************************************************************)
MovedHead == [x |-> snake[1].x + direction.x, y |-> snake[1].y + direction.y]

Init ==
    /\ snake = INITIAL_SNAKE
    /\ direction = INITIAL_DIRECTION
    /\ food = INITIAL_FOOD
    /\ gameOver = FALSE
    /\ gameStarted = FALSE
    /\ isPaused = FALSE
    /\ score = 0
    /\ timerArmed = FALSE
    /\ steps = 0
    /\ lastApplied = NoDirection
    /\ elapsed = 0
    /\ sinceTick = 0
    /\ quiet = FALSE
    /\ quietTicks = 0

(***************************************************************************)
(* gameLoop: one tick of the interval.  The three outcomes of the snake    *)
(* updater: collision (lines 62-65), food eaten (lines 67-72, 77) and      *)
(* plain move (lines 67, 73-77).                                           *)
(***************************************************************************)
onCollision_StillMoves ==
    /\ gameOver' = TRUE
    /\ snake' = SubSeq(<<MovedHead>> \o snake, 1, Len(snake))
    /\ UNCHANGED <<food, score>>

onCollision ==
    /\ gameOver' = TRUE
    /\ snake' = snake
    /\ UNCHANGED <<food, score>>

onFoodEaten_ScoresTwice(newSnake) ==
    /\ score' = score + REWARD + REWARD
    /\ food' \in generateFood(newSnake)
    /\ snake' = newSnake
    /\ UNCHANGED gameOver

onFoodEaten(newSnake) ==
    /\ score' = score + REWARD
    /\ food' \in generateFood(newSnake)
    /\ snake' = newSnake
    /\ UNCHANGED gameOver

onMove_KeepsTail(newSnake) ==
    /\ snake' = newSnake
    /\ UNCHANGED <<food, score, gameOver>>

onMove_PopsTwice(newSnake) ==
    /\ snake' = SubSeq(newSnake, 1, Len(newSnake) - 2)
    /\ UNCHANGED <<food, score, gameOver>>

onMove(newSnake) ==
    /\ snake' = SubSeq(newSnake, 1, Len(newSnake) - 1)
    /\ UNCHANGED <<food, score, gameOver>>

gameLoopWithin(limit) ==
    /\ IF ~gameStarted \/ isPaused \/ gameOver
       THEN UNCHANGED <<state, steps>>
       ELSE /\ steps < limit
            /\ steps' = steps + 1
            /\ LET head == MovedHead
                   newSnake == <<head>> \o snake
               IN  IF checkCollision(head, snake)
                   THEN onCollision
                   ELSE IF head.x = food.x /\ head.y = food.y
                   THEN onFoodEaten(newSnake)
                   ELSE onMove(newSnake)
            /\ UNCHANGED <<direction, gameStarted, isPaused>>
    /\ useEffectGameLoop

gameLoop == gameLoopWithin(MaxSteps)

(***************************************************************************)
(* handleKeyPress: the keydown listener.                                   *)
(***************************************************************************)
handleKeyPress_LeftRightGuardSwapped(key) ==
    /\ IF ~gameStarted \/ isPaused \/ gameOver
       THEN UNCHANGED direction
       ELSE direction' =
              IF key = "ArrowUp" /\ direction.y = 0 THEN [x |-> 0, y |-> -1]
              ELSE IF key = "ArrowDown" /\ direction.y = 0 THEN [x |-> 0, y |-> 1]
              ELSE IF key = "ArrowLeft" /\ direction.y = 0 THEN [x |-> -1, y |-> 0]
              ELSE IF key = "ArrowRight" /\ direction.y = 0 THEN [x |-> 1, y |-> 0]
              ELSE direction
    /\ UNCHANGED <<snake, food, gameOver, gameStarted, isPaused, score, steps>>
    /\ useEffectGameLoop

handleKeyPress_IgnoresPause(key) ==
    /\ IF ~gameStarted \/ gameOver
       THEN UNCHANGED direction
       ELSE direction' =
              IF key = "ArrowUp" /\ direction.y = 0 THEN [x |-> 0, y |-> -1]
              ELSE IF key = "ArrowDown" /\ direction.y = 0 THEN [x |-> 0, y |-> 1]
              ELSE IF key = "ArrowLeft" /\ direction.x = 0 THEN [x |-> -1, y |-> 0]
              ELSE IF key = "ArrowRight" /\ direction.x = 0 THEN [x |-> 1, y |-> 0]
              ELSE direction
    /\ UNCHANGED <<snake, food, gameOver, gameStarted, isPaused, score, steps>>
    /\ useEffectGameLoop

handleKeyPress_IgnoresGameOver(key) ==
    /\ IF ~gameStarted \/ isPaused
       THEN UNCHANGED direction
       ELSE direction' =
              IF key = "ArrowUp" /\ direction.y = 0 THEN [x |-> 0, y |-> -1]
              ELSE IF key = "ArrowDown" /\ direction.y = 0 THEN [x |-> 0, y |-> 1]
              ELSE IF key = "ArrowLeft" /\ direction.x = 0 THEN [x |-> -1, y |-> 0]
              ELSE IF key = "ArrowRight" /\ direction.x = 0 THEN [x |-> 1, y |-> 0]
              ELSE direction
    /\ UNCHANGED <<snake, food, gameOver, gameStarted, isPaused, score, steps>>
    /\ useEffectGameLoop

handleKeyPress(key) ==
    /\ IF ~gameStarted \/ isPaused \/ gameOver
       THEN UNCHANGED direction
       ELSE direction' =
              IF key = "ArrowUp" /\ direction.y = 0 THEN [x |-> 0, y |-> -1]
              ELSE IF key = "ArrowDown" /\ direction.y = 0 THEN [x |-> 0, y |-> 1]
              ELSE IF key = "ArrowLeft" /\ direction.x = 0 THEN [x |-> -1, y |-> 0]
              ELSE IF key = "ArrowRight" /\ direction.x = 0 THEN [x |-> 1, y |-> 0]
              ELSE direction
    /\ UNCHANGED <<snake, food, gameOver, gameStarted, isPaused, score, steps>>
    /\ useEffectGameLoop

KeyPress == \E key \in Keys : handleKeyPress(key)

(***************************************************************************)
(* startGame, togglePause, restartGame: the three buttons' handlers.       *)
(***************************************************************************)
startGame ==
    /\ gameStarted' = TRUE
    /\ isPaused' = FALSE
    /\ UNCHANGED <<snake, direction, food, gameOver, score, steps>>
    /\ useEffectGameLoop

togglePause_OnlyPauses ==
    /\ IF gameStarted /\ ~gameOver
       THEN isPaused' = TRUE
       ELSE UNCHANGED isPaused
    /\ UNCHANGED <<snake, direction, food, gameOver, gameStarted, score, steps>>
    /\ useEffectGameLoop

togglePause ==
    /\ IF gameStarted /\ ~gameOver
       THEN isPaused' = ~isPaused
       ELSE UNCHANGED isPaused
    /\ UNCHANGED <<snake, direction, food, gameOver, gameStarted, score, steps>>
    /\ useEffectGameLoop

restartGame_KeepsDirection ==
    /\ snake' = INITIAL_SNAKE
    /\ food' = [x |-> 10, y |-> 10]
    /\ gameOver' = FALSE
    /\ gameStarted' = FALSE
    /\ isPaused' = FALSE
    /\ score' = 0
    /\ steps' = 0
    /\ UNCHANGED direction
    /\ useEffectGameLoop

restartGame_KeepsFood ==
    /\ snake' = INITIAL_SNAKE
    /\ direction' = INITIAL_DIRECTION
    /\ UNCHANGED food
    /\ gameOver' = FALSE
    /\ gameStarted' = FALSE
    /\ isPaused' = FALSE
    /\ score' = 0
    /\ steps' = 0
    /\ useEffectGameLoop

restartGame_KeepsScore ==
    /\ snake' = INITIAL_SNAKE
    /\ direction' = INITIAL_DIRECTION
    /\ food' = [x |-> 10, y |-> 10]
    /\ gameOver' = FALSE
    /\ gameStarted' = FALSE
    /\ isPaused' = FALSE
    /\ UNCHANGED score
    /\ steps' = 0
    /\ useEffectGameLoop

restartGame ==
    /\ snake' = INITIAL_SNAKE
    /\ direction' = INITIAL_DIRECTION
    /\ food' = [x |-> 10, y |-> 10]
    /\ gameOver' = FALSE
    /\ gameStarted' = FALSE
    /\ isPaused' = FALSE
    /\ score' = 0
    /\ steps' = 0
    /\ useEffectGameLoop

(***************************************************************************)
(* The events of the game.  A tick records the direction it applies; a     *)
(* restart begins a new run.  Time and the quiet mode play no part here.   *)
(***************************************************************************)
clocks == <<elapsed, sinceTick>>

quietMode == <<quiet, quietTicks>>

recordApplied ==
    lastApplied' = IF Running THEN direction ELSE lastApplied

Tick == gameLoop /\ recordApplied /\ UNCHANGED <<clocks, quietMode>>

Key == KeyPress /\ UNCHANGED <<lastApplied, clocks, quietMode>>

Start == startGame /\ UNCHANGED <<lastApplied, clocks, quietMode>>

Pause == togglePause /\ UNCHANGED <<lastApplied, clocks, quietMode>>

Restart ==
    restartGame /\ lastApplied' = NoDirection /\ UNCHANGED <<clocks, quietMode>>

Next ==
    \/ Tick
    \/ Key
    \/ Start
    \/ Pause
    \/ Restart

Spec == Init /\ [][Next]_vars

(***************************************************************************)
(* The game in time.  The interval fires GAME_SPEED after it was set or    *)
(* last fired, and time does not pass a due interval.  The effect sets a   *)
(* new interval (elapsed back to 0) whenever it runs again.  Time passes   *)
(* in steps of TimeStep; a run has at most TimedSteps moves; the time      *)
(* without a tick is followed up to two periods.                           *)
(***************************************************************************)
TimeStep == 50

TimedSteps == 7

Min(a, b) == IF a < b THEN a ELSE b

resetInterval ==
    elapsed' = IF GameLoopDeps' # GameLoopDeps THEN 0 ELSE elapsed

enterRunning ==
    sinceTick' = IF ~Running /\ Running' THEN 0 ELSE sinceTick

TimedAdvance ==
    /\ timerArmed
    /\ elapsed < GAME_SPEED
    /\ sinceTick < 2 * GAME_SPEED
    /\ LET dt == Min(TimeStep, GAME_SPEED - elapsed)
       IN  /\ elapsed' = elapsed + dt
           /\ sinceTick' = sinceTick + dt
    /\ UNCHANGED <<state, timerArmed, steps, lastApplied, quietMode>>

TimedTick ==
    /\ timerArmed
    /\ elapsed = GAME_SPEED
    /\ gameLoopWithin(TimedSteps)
    /\ recordApplied
    /\ elapsed' = 0
    /\ sinceTick' = 0
    /\ UNCHANGED quietMode

TimedKey ==
    KeyPress /\ resetInterval /\ enterRunning /\ UNCHANGED <<lastApplied, quietMode>>

TimedStart ==
    startGame /\ resetInterval /\ enterRunning /\ UNCHANGED <<lastApplied, quietMode>>

TimedPause ==
    togglePause /\ resetInterval /\ enterRunning /\ UNCHANGED <<lastApplied, quietMode>>

TimedRestart ==
    /\ restartGame
    /\ resetInterval
    /\ enterRunning
    /\ lastApplied' = NoDirection
    /\ UNCHANGED quietMode

NextTimed ==
    \/ TimedAdvance
    \/ TimedTick
    \/ TimedKey
    \/ TimedStart
    \/ TimedPause
    \/ TimedRestart

SpecTimed == Init /\ [][NextTimed]_vars

(***************************************************************************)
(* One game played to the end: the player steers the head along a fixed    *)
(* route and every draw of generateFood is the route's next free cell.     *)
(* The route goes from (7,7) right and down to the first food (10,10),     *)
(* left to column 0 and up to the corner (0,0), and from there through the *)
(* whole grid row by row, alternately rightwards and leftwards.  The food  *)
(* drawn at (10,10) is the route's third cell after the corner, (2,0), so  *)
(* the snake has two cells when it turns at the corner and eats on every   *)
(* tick from there on.                                                     *)
(***************************************************************************)
RowByRow(k) ==
    LET row == k \div GRID_SIZE
        col == k % GRID_SIZE
    IN  [x |-> IF row % 2 = 0 THEN col ELSE GRID_SIZE - 1 - col, y |-> row]

ToFood == (INITIAL_FOOD.x - INITIAL_SNAKE[1].x) + (INITIAL_FOOD.y - INITIAL_SNAKE[1].y)

ToCorner == ToFood + INITIAL_FOOD.x + INITIAL_FOOD.y

RouteLength == ToCorner + GRID_SIZE * GRID_SIZE - 1

RouteCell(n) ==
    IF n <= INITIAL_FOOD.x - INITIAL_SNAKE[1].x
    THEN [x |-> INITIAL_SNAKE[1].x + n, y |-> INITIAL_SNAKE[1].y]
    ELSE IF n <= ToFood
    THEN [x |-> INITIAL_FOOD.x, y |-> INITIAL_FOOD.y - (ToFood - n)]
    ELSE IF n <= ToFood + INITIAL_FOOD.x
    THEN [x |-> INITIAL_FOOD.x - (n - ToFood), y |-> INITIAL_FOOD.y]
    ELSE IF n <= ToCorner
    THEN [x |-> 0, y |-> ToCorner - n]
    ELSE RowByRow(n - ToCorner)

FillTick ==
    /\ gameLoopWithin(RouteLength)
    /\ ~gameOver'
    /\ snake'[1] = RouteCell(steps')
    /\ food' # food =>
         food' = RouteCell(IF steps' = ToFood THEN ToCorner + 2 ELSE steps' + 1)
    /\ recordApplied
    /\ UNCHANGED <<clocks, quietMode>>

FillKey ==
    /\ \E key \in Keys :
          /\ handleKeyPress(key)
          /\ direction' # direction
          /\ [x |-> snake[1].x + direction'.x, y |-> snake[1].y + direction'.y]
               = RouteCell(steps + 1)
    /\ UNCHANGED <<lastApplied, clocks, quietMode>>

FillStart ==
    /\ ~gameStarted
    /\ startGame
    /\ UNCHANGED <<lastApplied, clocks, quietMode>>

NextFill ==
    \/ FillStart
    \/ FillKey
    \/ FillTick

SpecFill == Init /\ [][NextFill]_vars

(***************************************************************************)
(* The game left alone.  After at most QuietAfter moves of a run the       *)
(* player may stop, while the game is running, to press keys and buttons   *)
(* for good (quiet); from then on only the interval acts, and quietTicks   *)
(* counts its ticks.  The interval keeps firing as long as it is set,      *)
(* which is the fairness of QuietTick.                                     *)
(***************************************************************************)
QuietAfter == 6

GoQuiet ==
    /\ ~quiet
    /\ Running
    /\ quiet' = TRUE
    /\ UNCHANGED <<state, timerArmed, steps, lastApplied, clocks, quietTicks>>

QuietTick ==
    /\ quiet
    /\ timerArmed
    /\ quietTicks <= GRID_SIZE
    /\ gameLoopWithin(QuietAfter + GRID_SIZE + 1)
    /\ recordApplied
    /\ quietTicks' = quietTicks + 1
    /\ UNCHANGED <<clocks, quiet>>

BusyTick ==
    /\ ~quiet
    /\ gameLoopWithin(QuietAfter)
    /\ recordApplied
    /\ UNCHANGED <<clocks, quietMode>>

BusyKey == ~quiet /\ Key

BusyStart == ~quiet /\ Start

BusyPause == ~quiet /\ Pause

BusyRestart == ~quiet /\ Restart

NextQuiet ==
    \/ GoQuiet
    \/ QuietTick
    \/ BusyTick
    \/ BusyKey
    \/ BusyStart
    \/ BusyPause
    \/ BusyRestart

SpecQuiet == Init /\ [][NextQuiet]_vars /\ WF_vars(QuietTick)

(***************************************************************************)
(* Vocabulary of the properties, stated on cells as sets and on the phase  *)
(* rather than by the operators the handlers are built from.               *)
(***************************************************************************)
Range(s) == {s[i] : i \in 1 .. Len(s)}

InGrid(c) == c.x \in 0 .. GRID_SIZE - 1 /\ c.y \in 0 .. GRID_SIZE - 1

TailCell == snake[Len(snake)]

Collides == ~InGrid(MovedHead) \/ MovedHead \in Range(snake)

Opposite(d) == [x |-> 0 - d.x, y |-> 0 - d.y]

Abs(n) == IF n < 0 THEN 0 - n ELSE n

Perpendicular(d, e) == d.x * e.x + d.y * e.y = 0

KeyDirections ==
    {<<"ArrowUp", [x |-> 0, y |-> -1]>>, <<"ArrowDown", [x |-> 0, y |-> 1]>>,
     <<"ArrowLeft", [x |-> -1, y |-> 0]>>, <<"ArrowRight", [x |-> 1, y |-> 0]>>}

(***************************************************************************)
(* C1: in every reachable state every cell of the snake lies inside the    *)
(* grid [0,N)x[0,N) and the snake's cells are pairwise distinct.           *)
(***************************************************************************)
C1_SnakeInGridAndDistinct ==
    /\ \A i \in 1 .. Len(snake) : InGrid(snake[i])
    /\ \A i, j \in 1 .. Len(snake) : i # j => snake[i] # snake[j]

C1_Witness ==
    /\ Len(snake) >= 4
    /\ snake[1].x # snake[4].x
    /\ snake[1].y # snake[4].y
    /\ Phase = "Running"

(***************************************************************************)
(* C2: a tick in phase Running ends in GameOver exactly when the moved     *)
(* head is outside the grid or on a cell of the pre-move body, the tail    *)
(* cell included; in every other case the phase stays Running.             *)
(***************************************************************************)
C2_GameOverIffCollision ==
    [][(gameLoop /\ Phase = "Running")
         => Phase' = IF Collides THEN "GameOver" ELSE "Running"]_vars

C2_Witness ==
    /\ Phase = "GameOver"
    /\ Len(snake) >= 4
    /\ MovedHead = TailCell

(***************************************************************************)
(* C3: a tick that detects a collision changes only the phase: snake,      *)
(* food, score and direction are what they were before the tick.           *)
(***************************************************************************)
C3_CollisionChangesOnlyPhase ==
    [][(gameLoop /\ Phase = "Running" /\ Collides)
         => /\ Phase' = "GameOver"
            /\ UNCHANGED <<snake, food, score, direction>>]_vars

C3_Witness ==
    /\ Phase = "GameOver"
    /\ Len(snake) >= 3
    /\ MovedHead \in Range(snake)
    /\ score = REWARD * (Len(snake) - 1)

(***************************************************************************)
(* C4: a tick in phase Running whose moved head is collision-free and on   *)
(* the food cell yields the moved head followed by the whole pre-move      *)
(* body, score + 10, and a food cell inside the grid on no cell of the     *)
(* grown snake.                                                            *)
(***************************************************************************)
C4_EatingTick ==
    [][(gameLoop /\ Phase = "Running" /\ ~Collides /\ MovedHead = food)
         => /\ snake' = <<MovedHead>> \o snake
            /\ score' = score + 10
            /\ InGrid(food')
            /\ food' \notin Range(snake')]_vars

C4_Witness ==
    /\ Len(snake) = 3
    /\ score = 20
    /\ food \in {[x |-> snake[1].x + 1, y |-> snake[1].y],
                 [x |-> snake[1].x, y |-> snake[1].y + 1]}

(***************************************************************************)
(* C5: a tick in phase Running whose moved head is collision-free and not  *)
(* on the food cell yields the moved head followed by the pre-move body    *)
(* without its last cell, and leaves score, food, direction and the phase  *)
(* unchanged.                                                              *)
(***************************************************************************)
C5_PlainMoveTick ==
    [][(gameLoop /\ Phase = "Running" /\ ~Collides /\ MovedHead # food)
         => /\ snake' = <<MovedHead>> \o SubSeq(snake, 1, Len(snake) - 1)
            /\ Len(snake') = Len(snake)
            /\ UNCHANGED <<score, food, direction>>
            /\ Phase' = "Running"]_vars

C5_Witness ==
    /\ Phase = "Running"
    /\ Len(snake) = 3
    /\ steps = MaxSteps
    /\ food \notin Range(snake)

(***************************************************************************)
(* C6: the interval is not armed in the phases NotStarted, Paused and      *)
(* GameOver, and a tick that runs in one of those phases leaves snake,     *)
(* food, score, direction and the phase unchanged.                         *)
(***************************************************************************)
C6_NoTickOutsideRunning ==
    /\ [](Phase \in {"NotStarted", "Paused", "GameOver"} => ~timerArmed)
    /\ [][(gameLoop /\ Phase # "Running")
            => /\ UNCHANGED <<snake, food, score, direction>>
               /\ Phase' = Phase]_vars

C6_Witness ==
    /\ Phase = "Paused"
    /\ ~timerArmed
    /\ steps > 0

(***************************************************************************)
(* C7: start() moves NotStarted to Running and, called in Running, Paused  *)
(* or GameOver, leaves phase, snake, food, score and direction unchanged.  *)
(***************************************************************************)
C7_StartOnlyFromNotStarted ==
    [][startGame
         => IF Phase = "NotStarted"
            THEN Phase' = "Running"
            ELSE /\ Phase' = Phase
                 /\ UNCHANGED <<snake, food, score, direction>>]_vars

(***************************************************************************)
(* C8: restart() called in any reachable state yields the initial state:   *)
(* phase NotStarted, score 0, snake [(7,7)], food (10,10), direction       *)
(* (1,0).                                                                  *)
(***************************************************************************)
C8_RestartYieldsInitialState ==
    [][restartGame
         => /\ Phase' = "NotStarted"
            /\ score' = 0
            /\ snake' = << [x |-> 7, y |-> 7] >>
            /\ food' = [x |-> 10, y |-> 10]
            /\ direction' = [x |-> 1, y |-> 0]]_vars

C8_Witness ==
    /\ Phase = "GameOver"
    /\ score >= 20
    /\ direction # INITIAL_DIRECTION
    /\ food # INITIAL_FOOD
    /\ snake[1] # INITIAL_SNAKE[1]

(***************************************************************************)
(* C9: togglePause() turns Running into Paused and Paused into Running,    *)
(* is a no-op in NotStarted and GameOver, and never changes snake, food,   *)
(* score or direction.                                                     *)
(***************************************************************************)
C9_TogglePause ==
    /\ [](Phase = "Running" => ENABLED (togglePause /\ Phase' = "Paused"))
    /\ [](Phase = "Paused" => ENABLED (togglePause /\ Phase' = "Running"))
    /\ [][togglePause
            => /\ Phase' = CASE Phase = "Running" -> "Paused"
                             [] Phase = "Paused" -> "Running"
                             [] OTHER -> Phase
               /\ UNCHANGED <<snake, food, score, direction>>]_vars

C9_Witness ==
    /\ Phase = "Paused"
    /\ score >= 10
    /\ steps < MaxSteps

(***************************************************************************)
(* C10: in phase Running a direction request that is the exact opposite of *)
(* the current direction leaves the direction as it was, and a request     *)
(* perpendicular to the current direction becomes the direction.           *)
(***************************************************************************)
C10_ReversalRejected ==
    /\ [](Phase = "Running" =>
            \A kd \in KeyDirections :
               Perpendicular(kd[2], direction)
                 => ENABLED (handleKeyPress(kd[1]) /\ direction' = kd[2]))
    /\ [][\A kd \in KeyDirections :
            (handleKeyPress(kd[1]) /\ Phase = "Running")
              => /\ kd[2] = Opposite(direction) => direction' = direction
                 /\ Perpendicular(kd[2], direction) => direction' = kd[2]]_vars

C10_Witness ==
    /\ Phase = "Running"
    /\ direction.y # 0
    /\ Len(snake) >= 2

(***************************************************************************)
(* C11: the direction a tick applies is never the exact opposite of the    *)
(* direction the previous tick of the same run applied, whatever key       *)
(* events arrive between the two ticks.                                    *)
(***************************************************************************)
C11_NoInstantReversal ==
    [][(gameLoop /\ Phase = "Running" /\ lastApplied # NoDirection)
         => direction # Opposite(lastApplied)]_vars

(***************************************************************************)
(* C12: a key event changes nothing in the phases NotStarted, Paused and   *)
(* GameOver, and in Running it changes at most the direction: snake, food, *)
(* score and the phase are never changed by a key event.                   *)
(***************************************************************************)
C12_KeyChangesAtMostDirection ==
    [][\A key \in Keys :
         handleKeyPress(key)
           => /\ UNCHANGED <<snake, food, score, gameOver, gameStarted,
                             isPaused>>
              /\ Phase' = Phase
              /\ Phase # "Running" => UNCHANGED <<direction, timerArmed>>]_vars

C12_Witness ==
    /\ Phase = "Running"
    /\ Len(snake) >= 2
    /\ lastApplied # NoDirection
    /\ direction # lastApplied
    /\ snake[1] = [x |-> snake[2].x + lastApplied.x,
                   y |-> snake[2].y + lastApplied.y]

(***************************************************************************)
(* C13: once the phase is GameOver it stays GameOver with snake, food,     *)
(* score and direction frozen, whatever start, togglePause, key and tick   *)
(* events occur; only restart leaves GameOver, and it leads to NotStarted. *)
(***************************************************************************)
C13_GameOverIsFrozen ==
    [][Phase = "GameOver"
         => \/ /\ Phase' = "GameOver"
               /\ UNCHANGED <<snake, food, score, direction>>
            \/ /\ restartGame
               /\ Phase' = "NotStarted"]_vars

C13_Witness ==
    /\ Phase = "GameOver"
    /\ ~InGrid(MovedHead)
    /\ lastApplied = direction

(***************************************************************************)
(* C14: the score is a non-negative multiple of 10 in every reachable      *)
(* state, and every step leaves it unchanged, adds exactly 10 (a tick that *)
(* eats the food) or resets it to 0 (restart).                             *)
(***************************************************************************)
C14_ScoreSteps ==
    /\ [](score \in Nat /\ score % 10 = 0)
    /\ [][\/ score' = score
          \/ score' = score + 10 /\ gameLoop /\ MovedHead = food
          \/ score' = 0 /\ restartGame]_vars

C14_Witness ==
    /\ score = 30
    /\ Phase = "Running"

(***************************************************************************)
(* C15: in every reachable state the snake has at least one cell and every *)
(* two adjacent cells of it differ by exactly one orthogonal unit step.    *)
(***************************************************************************)
C15_SnakeContiguous ==
    /\ Len(snake) >= 1
    /\ \A i \in 1 .. Len(snake) - 1 :
          Abs(snake[i].x - snake[i + 1].x) + Abs(snake[i].y - snake[i + 1].y) = 1

C15_Witness ==
    /\ Len(snake) >= 4
    /\ snake[1].x # snake[3].x
    /\ snake[1].y # snake[3].y
    /\ snake[2].x # snake[4].x
    /\ snake[2].y # snake[4].y

(***************************************************************************)
(* C16: while the phase is Running a tick occurs within one period         *)
(* (GAME_SPEED) of the previous tick or of the moment the game began to    *)
(* run; key events between two ticks do not postpone the pending tick.     *)
(***************************************************************************)
C16_TickWithinOnePeriod ==
    Phase = "Running" => sinceTick <= GAME_SPEED

(***************************************************************************)
(* C17: in no reachable state is generateFood asked to place food while    *)
(* every cell of the grid is occupied by the snake: no tick that eats the  *)
(* food grows the snake to GRID_SIZE * GRID_SIZE cells, so the retry loop  *)
(* always has a free cell to return.                                       *)
(***************************************************************************)
C17_FoodLoopHasFreeCell ==
    (Phase = "Running" /\ ~Collides /\ MovedHead = food)
      => /\ Len(snake) + 1 < GRID_SIZE * GRID_SIZE
         /\ generateFood(<<MovedHead>> \o snake) # {}

(***************************************************************************)
(* C18: in every reachable state the food cell lies inside the grid and is *)
(* on no cell of the snake.                                                *)
(***************************************************************************)
C18_FoodFreeAndInGrid ==
    /\ InGrid(food)
    /\ food \notin Range(snake)

C18_Witness ==
    /\ Phase = "Running"
    /\ Len(snake) >= 3
    /\ food # INITIAL_FOOD
    /\ MovedHead = food

(***************************************************************************)
(* C19: in every reachable state score = 10 * (length of the snake - 1).   *)
(***************************************************************************)
C19_ScoreIsLength ==
    score = 10 * (Len(snake) - 1)

C19_Witness ==
    /\ score = 30
    /\ Len(snake) = 4
    /\ Phase = "GameOver"
(***************************************************************************)
(* C20: from any Running state, if ticks keep firing and no further key or *)
(* button event occurs, the phase eventually becomes GameOver, after at    *)
(* most GRID_SIZE ticks.                                                   *)
(***************************************************************************)
C20_StraightRunEnds ==
    /\ (quiet /\ Phase = "Running") ~> (Phase = "GameOver")
    /\ [](quiet => /\ quietTicks <= GRID_SIZE
                   /\ Phase = "Running" => quietTicks < GRID_SIZE)

C20_Witness ==
    /\ quiet
    /\ Phase = "GameOver"
    /\ quietTicks >= GRID_SIZE - 1
    /\ ~InGrid(MovedHead)

=============================================================================
